---------------------------- MODULE Spec2Model ----------------------------
(***************************************************************************)
(* deepgrep: the pattern parser (core/parser.py), the matcher tree         *)
(* (core/matcher.py), and the scan driver with its compilation cache       *)
(* (core/engine.py), as called by the /search handler (web/app.py).        *)
(*                                                                         *)
(* Text (lines, patterns, captured substrings) is a sequence of one-       *)
(* character strings.  Offsets are 0-based as in the source: the           *)
(* character at Python offset k of s is s[k + 1].                          *)
(***************************************************************************)
EXTENDS Integers, Sequences, FiniteSets, TLC

(***************************************************************************)
(* Bounds of the model.                                                    *)
(***************************************************************************)
\* longest generated pattern of the scan specification
MaxPatLen == 3
\* longest generated line of the scan specification
MaxLineLen == 2
\* capacity of the compilation cache in the cache specifications; the code
\* sets maxsize=512 (engine.py:15), the model runs the same cache scaled down
maxsize == 2
\* callers that run find_matches / match_pattern at the same time
NumThreads == 2

(***************************************************************************)
(* Characters and text.                                                    *)
(***************************************************************************)
None == "None"

BS == "\\"

DigitChars == {"0", "1", "2", "3", "4", "5", "6", "7", "8", "9"}

LetterChars ==
    {"a", "b", "c", "d", "e", "f", "g", "h", "i", "j", "k", "l", "m",
     "n", "o", "p", "q", "r", "s", "t", "u", "v", "w", "x", "y", "z"}

\* str.isdigit() on one character
isdigit(c) == c \in DigitChars

\* str.isalnum() on one character
isalnum(c) == c \in DigitChars \cup LetterChars

max(a, b) == IF a >= b THEN a ELSE b

\* s[a:b] for 0 <= a, 0 <= b: Python clips the slice to the text
Slice(s, a, b) ==
    LET hi == IF b > Len(s) THEN Len(s) ELSE b
    IN  IF a >= hi THEN <<>> ELSE SubSeq(s, a + 1, hi)

\* c in s, for a list or a string s
Contains(s, c) == \E k \in 1..Len(s) : s[k] = c

\* s.startswith(c) for a one-character c
startswith(s, c) == Len(s) >= 1 /\ s[1] = c

DigitVal(c) ==
    CASE c = "0" -> 0 [] c = "1" -> 1 [] c = "2" -> 2 [] c = "3" -> 3
      [] c = "4" -> 4 [] c = "5" -> 5 [] c = "6" -> 6 [] c = "7" -> 7
      [] c = "8" -> 8 [] c = "9" -> 9

\* int(s) for a text s of decimal digits; int("") raises ValueError, which
\* IntRaises states
RECURSIVE int(_)
int(s) ==
    IF s = <<>> THEN 0
    ELSE 10 * int(SubSeq(s, 1, Len(s) - 1)) + DigitVal(s[Len(s)])

IntRaises(s) == s = <<>> \/ \E k \in 1..Len(s) : ~isdigit(s[k])

\* s.split(","): the parts between the commas, empty parts kept
RECURSIVE split(_)
split(s) ==
    IF ~Contains(s, ",") THEN <<s>>
    ELSE LET k == CHOOSE j \in 1..Len(s) :
                      s[j] = "," /\ \A h \in 1..(j - 1) : s[h] # ","
         IN  <<SubSeq(s, 1, k - 1)>> \o split(SubSeq(s, k + 1, Len(s)))

(***************************************************************************)
(* The matcher tree (matcher.py): one record per Matcher class, with the   *)
(* fields its constructor stores.                                          *)
(***************************************************************************)
LiteralMatcher(char) == [type |-> "LiteralMatcher", char |-> char]
DigitMatcher == [type |-> "DigitMatcher"]
WordMatcher == [type |-> "WordMatcher"]
AnyMatcher == [type |-> "AnyMatcher"]
CharClassMatcher(charset, negated) ==
    [type |-> "CharClassMatcher", charset |-> charset, negated |-> negated]
SequenceMatcher(matchers) == [type |-> "SequenceMatcher", matchers |-> matchers]
AlternationMatcher(left, right) ==
    [type |-> "AlternationMatcher", left |-> left, right |-> right]
OptionalMatcher(matcher) == [type |-> "OptionalMatcher", matcher |-> matcher]
PlusMatcher(matcher) == [type |-> "PlusMatcher", matcher |-> matcher]
StarMatcher(matcher) == [type |-> "StarMatcher", matcher |-> matcher]
AnchorStartMatcher == [type |-> "AnchorStartMatcher"]
AnchorEndMatcher == [type |-> "AnchorEndMatcher"]
CaptureGroupMatcher(matcher, gid) ==
    [type |-> "CaptureGroupMatcher", matcher |-> matcher, gid |-> gid]
BackreferenceMatcher(gid) == [type |-> "BackreferenceMatcher", gid |-> gid]
Quantified(node, kind) == [type |-> "Quantified", node |-> node, kind |-> kind]

\* no matcher: the value of a matcher variable before compile_pattern returns
NoMatcher == [type |-> "None"]

(***************************************************************************)
(* The parser (parser.py).  The cursor of PatternParser (index,            *)
(* next_group_id) is threaded through the parsing operators: each returns  *)
(* [err, node, index, next_group_id], err = TRUE standing for a raised     *)
(* ParseError (the only exception the parser raises).                      *)
(***************************************************************************)
peek(pattern, index) ==
    IF index < Len(pattern) THEN pattern[index + 1] ELSE None

\* the index after advance()
advance(pattern, index) ==
    IF peek(pattern, index) # None THEN index + 1 ELSE index

Parsed(node, index, next_group_id) ==
    [err |-> FALSE, node |-> node, index |-> index,
     next_group_id |-> next_group_id]

ParseError(index, next_group_id) ==
    [err |-> TRUE, node |-> NoMatcher, index |-> index,
     next_group_id |-> next_group_id]

RECURSIVE _parse_expression(_, _, _)
RECURSIVE _parse_term(_, _, _, _)
RECURSIVE _parse_factor(_, _, _)
RECURSIVE _parse_atom(_, _, _)
RECURSIVE _parse_group(_, _, _)
RECURSIVE expression_loop(_, _)

_parse_escape_or_backref(pattern, index, gid) ==
    LET i1 == advance(pattern, index)
        ch == peek(pattern, i1)
        i2 == advance(pattern, i1)
    IN  IF ch = None THEN ParseError(i2, gid)
        ELSE IF isdigit(ch) THEN Parsed(BackreferenceMatcher(int(<<ch>>)), i2, gid)
        ELSE IF ch = "d" THEN Parsed(DigitMatcher, i2, gid)
        ELSE IF ch = "w" THEN Parsed(WordMatcher, i2, gid)
        ELSE Parsed(LiteralMatcher(ch), i2, gid)

\* the loop of _parse_charset: the characters up to the next "]" or the end
RECURSIVE charset_chars(_, _, _)
charset_chars(pattern, index, chars) ==
    IF peek(pattern, index) # None /\ peek(pattern, index) # "]"
    THEN charset_chars(pattern, advance(pattern, index),
                       Append(chars, peek(pattern, index)))
    ELSE [chars |-> chars, index |-> index]

\* _parse_charset after its loop: the closing bracket
charset_close(pattern, gid, negated, body) ==
    IF peek(pattern, body.index) # "]"
    THEN ParseError(advance(pattern, body.index), gid)
    ELSE Parsed(CharClassMatcher(body.chars, negated),
                advance(pattern, body.index), gid)

_parse_charset(pattern, index, gid) ==
    LET i1 == advance(pattern, index)
        negated == peek(pattern, i1) = "^"
        i2 == IF negated THEN advance(pattern, i1) ELSE i1
    IN  charset_close(pattern, gid, negated, charset_chars(pattern, i2, <<>>))

\* _parse_group after its expression: the closing parenthesis
group_close(pattern, group_id, expr) ==
    IF expr.err THEN expr
    ELSE IF peek(pattern, expr.index) # ")"
    THEN ParseError(advance(pattern, expr.index), expr.next_group_id)
    ELSE Parsed(CaptureGroupMatcher(expr.node, group_id),
                advance(pattern, expr.index), expr.next_group_id)

_parse_group(pattern, index, gid) ==
    group_close(pattern, gid,
                _parse_expression(pattern, advance(pattern, index), gid + 1))

_parse_atom(pattern, index, gid) ==
    LET c == peek(pattern, index)
    IN  IF c = None THEN ParseError(index, gid)
        ELSE IF c = "^" THEN Parsed(AnchorStartMatcher, advance(pattern, index), gid)
        ELSE IF c = "$" THEN Parsed(AnchorEndMatcher, advance(pattern, index), gid)
        ELSE IF c = "." THEN Parsed(AnyMatcher, advance(pattern, index), gid)
        ELSE IF c = BS THEN _parse_escape_or_backref(pattern, index, gid)
        ELSE IF c = "[" THEN _parse_charset(pattern, index, gid)
        ELSE IF c = "(" THEN _parse_group(pattern, index, gid)
        ELSE Parsed(LiteralMatcher(c), advance(pattern, index), gid)

\* the loop of _parse_factor that collects the text between the braces
RECURSIVE quantifier_content(_, _, _)
quantifier_content(pattern, index, content) ==
    IF peek(pattern, index) # None
       /\ (isdigit(peek(pattern, index)) \/ peek(pattern, index) = ",")
    THEN quantifier_content(pattern, advance(pattern, index),
                            Append(content, peek(pattern, index)))
    ELSE [content |-> content, index |-> index]

\* the brace branch of _parse_factor after its loop: the closing brace
brace_close(pattern, atom, body) ==
    IF peek(pattern, body.index) # "}"
    THEN ParseError(advance(pattern, body.index), atom.next_group_id)
    ELSE Parsed(Quantified(atom.node, <<"{">> \o body.content \o <<"}">>),
                advance(pattern, body.index), atom.next_group_id)

\* _parse_factor once its atom is parsed: the quantifier, if any
quantifier(pattern, atom) ==
    IF atom.err THEN atom
    ELSE LET nxt == peek(pattern, atom.index)
             i1 == advance(pattern, atom.index)
         IN  IF nxt = "?"
             THEN Parsed(OptionalMatcher(atom.node), i1, atom.next_group_id)
             ELSE IF nxt = "+"
             THEN Parsed(PlusMatcher(atom.node), i1, atom.next_group_id)
             ELSE IF nxt = "*"
             THEN Parsed(StarMatcher(atom.node), i1, atom.next_group_id)
             ELSE IF nxt = "{"
             THEN brace_close(pattern, atom,
                              quantifier_content(pattern, i1, <<>>))
             ELSE atom

_parse_factor(pattern, index, gid) ==
    quantifier(pattern, _parse_atom(pattern, index, gid))

\* the loop of _parse_term once factor f is parsed
term_next(pattern, factors, f) ==
    IF f.err THEN f
    ELSE _parse_term(pattern, f.index, f.next_group_id, Append(factors, f.node))

\* _parse_term with the factors collected so far
_parse_term(pattern, index, gid, factors) ==
    IF peek(pattern, index) \notin {None, ")", "|"}
    THEN term_next(pattern, factors, _parse_factor(pattern, index, gid))
    ELSE IF factors = <<>> THEN ParseError(index, gid)
    ELSE IF Len(factors) = 1 THEN Parsed(factors[1], index, gid)
    ELSE Parsed(SequenceMatcher(factors), index, gid)

\* the loop of _parse_expression once the term right of a bar is parsed
alternation_next(pattern, left, right) ==
    IF right.err THEN right
    ELSE expression_loop(pattern,
             Parsed(AlternationMatcher(left.node, right.node), right.index,
                    right.next_group_id))

\* the while loop of _parse_expression, left being the alternation so far
expression_loop(pattern, left) ==
    IF left.err THEN left
    ELSE IF peek(pattern, left.index) = "|"
    THEN alternation_next(pattern, left,
             _parse_term(pattern, advance(pattern, left.index),
                         left.next_group_id, <<>>))
    ELSE left

_parse_expression(pattern, index, gid) ==
    expression_loop(pattern, _parse_term(pattern, index, gid, <<>>))

\* parse() once the expression is parsed: nothing may follow it
parse_end(pattern, expr) ==
    IF expr.err THEN expr
    ELSE IF peek(pattern, expr.index) # None
    THEN ParseError(expr.index, expr.next_group_id)
    ELSE expr

\* PatternParser(pattern).parse()
parse(pattern) == parse_end(pattern, _parse_expression(pattern, 0, 1))

(***************************************************************************)
(* Match states and the matchers' match methods (matcher.py).              *)
(*                                                                         *)
(* A MatchState is [pos, groups]; groups, a dict from group id to captured *)
(* text, is the set of its <<id, text>> items.  Python compares two        *)
(* MatchStates by pos alone but hashes pos and groups, and a set tells     *)
(* two members apart unless their hashes are equal and they compare        *)
(* equal: a Python set of MatchStates is the set of its [pos, groups]      *)
(* values.                                                                 *)
(*                                                                         *)
(* match() returns a set of states or raises; the only exception a match   *)
(* can raise is the ValueError of int() in Quantified.match.  The result   *)
(* is [raised, states].                                                    *)
(***************************************************************************)
MatchState(pos, groups) == [pos |-> pos, groups |-> groups]

Returned(states) == [raised |-> FALSE, states |-> states]

ValueError == [raised |-> TRUE, states |-> {}]

\* gid in groups
HasGroup(groups, gid) == \E item \in groups : item[1] = gid

\* groups[gid]
GroupText(groups, gid) == (CHOOSE item \in groups : item[1] = gid)[2]

\* gcopy = deepcopy(groups); gcopy[gid] = text
SetGroup(groups, gid, text) ==
    {item \in groups : item[1] # gid} \cup {<<gid, text>>}

LiteralMatch(char, line, state) ==
    IF state.pos < Len(line) /\ line[state.pos + 1] = char
    THEN {MatchState(state.pos + 1, state.groups)}
    ELSE {}

DigitMatch(line, state) ==
    IF state.pos < Len(line) /\ isdigit(line[state.pos + 1])
    THEN {MatchState(state.pos + 1, state.groups)}
    ELSE {}

WordMatch(line, state) ==
    IF state.pos < Len(line)
       /\ (isalnum(line[state.pos + 1]) \/ line[state.pos + 1] = "_")
    THEN {MatchState(state.pos + 1, state.groups)}
    ELSE {}

AnyMatch(line, state) ==
    IF state.pos < Len(line)
    THEN {MatchState(state.pos + 1, state.groups)}
    ELSE {}

CharClassMatch(charset, negated, line, state) ==
    IF state.pos >= Len(line) THEN {}
    ELSE LET c == line[state.pos + 1]
         IN  IF (~negated /\ Contains(charset, c))
                \/ (negated /\ ~Contains(charset, c))
             THEN {MatchState(state.pos + 1, state.groups)}
             ELSE {}

AnchorStartMatch(line, state) == IF state.pos = 0 THEN {state} ELSE {}

\* an AnchorEndMatch that also steps over a last character
AnchorEndMatch_last(line, state) ==
    IF state.pos >= Len(line) - 1
    THEN {MatchState(Len(line), state.groups)}
    ELSE {}

AnchorEndMatch(line, state) == IF state.pos = Len(line) THEN {state} ELSE {}

\* CaptureGroupMatcher.match once the wrapped matcher has returned results
CaptureGroupMatch(gid, line, state, results) ==
    {MatchState(r.pos, SetGroup(r.groups, gid, Slice(line, state.pos, r.pos))) :
         r \in results}

\* a BackreferenceMatch that advances by the captured length without
\* comparing the text
BackreferenceMatch_skip(gid, line, state) ==
    IF ~HasGroup(state.groups, gid) THEN {}
    ELSE IF state.pos + Len(GroupText(state.groups, gid)) <= Len(line)
    THEN {MatchState(state.pos + Len(GroupText(state.groups, gid)), state.groups)}
    ELSE {}

BackreferenceMatch(gid, line, state) ==
    IF ~HasGroup(state.groups, gid) THEN {}
    ELSE LET ref == GroupText(state.groups, gid)
         IN  IF Slice(line, state.pos, state.pos + Len(ref)) = ref
             THEN {MatchState(state.pos + Len(ref), state.groups)}
             ELSE {}

\* the brace text of a Quantified node, as Quantified.match reads it:
\* [raised, n, unbounded, m], raised when an int() call raises ValueError
\* (int(parts[0]) and int(parts[1]) run before anything is matched)
Bounds(kind) ==
    LET content == SubSeq(kind, 2, Len(kind) - 1)
    IN  IF Contains(content, ",")
        THEN LET parts == split(content)
                 hasmax == Len(parts) > 1 /\ parts[2] # <<>>
             IN  IF IntRaises(parts[1]) \/ (hasmax /\ IntRaises(parts[2]))
                 THEN [raised |-> TRUE, n |-> 0, unbounded |-> FALSE, m |-> 0]
                 ELSE [raised |-> FALSE, n |-> int(parts[1]),
                       unbounded |-> ~hasmax,
                       m |-> IF hasmax THEN int(parts[2]) ELSE 0]
        ELSE IF IntRaises(content)
             THEN [raised |-> TRUE, n |-> 0, unbounded |-> FALSE, m |-> 0]
             ELSE [raised |-> FALSE, n |-> int(content), unbounded |-> FALSE,
                   m |-> int(content)]

RECURSIVE Match(_, _, _)
RECURSIVE SequenceLoop(_, _, _, _)
RECURSIVE FixedPointLoop(_, _, _, _)
RECURSIVE MinLoop(_, _, _, _)
RECURSIVE ExtraLoop(_, _, _, _)

\* a Collect whose set keeps one state per position
Collect_by_position(rs) ==
    IF \E r \in rs : r.raised THEN ValueError
    ELSE Returned({CHOOSE q \in UNION {r.states : r \in rs} : q.pos = o :
                      o \in {q.pos : q \in UNION {r.states : r \in rs}}})

\* the union of the results of several calls, or the exception if one of
\* the calls raised
Collect(rs) ==
    IF \E r \in rs : r.raised THEN ValueError
    ELSE Returned(UNION {r.states : r \in rs})

\* "for s in states: next_states |= matcher.match(line, s)"
MatchAll(node, line, states) == Collect({Match(node, line, s) : s \in states})

\* SequenceMatcher.match after matchers[k] has been applied
SequenceNext(matchers, k, line, next_states) ==
    IF next_states.raised THEN ValueError
    ELSE IF next_states.states = {} THEN Returned({})
    ELSE SequenceLoop(matchers, k + 1, line, next_states.states)

\* the fold of SequenceMatcher.match from matchers[k] on
SequenceLoop(matchers, k, line, states) ==
    IF k > Len(matchers) THEN Returned(states)
    ELSE SequenceNext(matchers, k, line, MatchAll(matchers[k], line, states))

\* one pass of the loop of Plus / Star once the frontier has been matched
FixedPointNext(node, line, all_states, next_results) ==
    IF next_results.raised THEN ValueError
    ELSE IF next_results.states \ all_states = {} THEN Returned(all_states)
    ELSE FixedPointLoop(node, line, next_results.states \ all_states,
                        all_states \cup next_results.states)

\* the while loop of PlusMatcher.match and of StarMatcher.match, from the
\* frontier (results / current) and the states accumulated so far
FixedPointLoop(node, line, frontier, all_states) ==
    IF frontier = {} THEN Returned(all_states)
    ELSE FixedPointNext(node, line, all_states, MatchAll(node, line, frontier))

\* PlusMatcher.match after the first application
PlusRest(node, line, results) ==
    IF results.raised THEN ValueError
    ELSE FixedPointLoop(node, line, results.states, results.states)

PlusMatch(node, line, state) == PlusRest(node, line, Match(node, line, state))

\* a StarMatch that leaves out the zero applications
StarMatch_unseeded(node, line, state) == PlusMatch(node, line, state)

StarMatch(node, line, state) == FixedPointLoop(node, line, {state}, {state})

\* {state} | r
OptionalResult(state, r) ==
    IF r.raised THEN ValueError ELSE Returned({state} \cup r.states)

OptionalMatch(node, line, state) ==
    OptionalResult(state, Match(node, line, state))

\* one pass of "for _ in range(n)" once node has been applied
MinNext(node, line, n, next_results) ==
    IF next_results.raised
    THEN [raised |-> TRUE, failed |-> FALSE, states |-> {}]
    ELSE IF next_results.states = {}
    THEN [raised |-> FALSE, failed |-> TRUE, states |-> {}]
    ELSE MinLoop(node, line, n - 1, next_results.states)

\* "for _ in range(n)": n applications of node, each to every result of the
\* one before; an empty result ends the match with set().  results is a
\* list in the source and collapses into a set on return; a repeated entry
\* only repeats a call, so the model keeps the set
MinLoop(node, line, n, results) ==
    IF n <= 0 THEN [raised |-> FALSE, failed |-> FALSE, states |-> results]
    ELSE MinNext(node, line, n, MatchAll(node, line, results))

\* one pass of "for _ in range(m - n)": results += next_results
ExtraNext(node, line, k, results, next_results) ==
    IF next_results.raised THEN ValueError
    ELSE ExtraLoop(node, line, k - 1, results \cup next_results.states)

\* "for _ in range(m - n): ... results += next_results"
ExtraLoop(node, line, k, results) ==
    IF k <= 0 THEN Returned(results)
    ELSE ExtraNext(node, line, k, results, MatchAll(node, line, results))

\* all_states |= each Star result
UnboundedResult(results, rs) ==
    IF \E r \in rs : r.raised THEN ValueError
    ELSE Returned(results \cup UNION {r.states : r \in rs})

\* the {n,} branch: the results of the minimum and Star from each of them
UnboundedTail(node, line, results) ==
    UnboundedResult(results, {StarMatch(node, line, s) : s \in results})

\* a BoundedRest that stops at the minimum number of applications
BoundedRest_least(node, b, line, least) ==
    IF least.raised THEN ValueError
    ELSE IF least.failed THEN Returned({})
    ELSE Returned(least.states)

\* the brace branches after the minimum applications
BoundedRest(node, b, line, least) ==
    IF least.raised THEN ValueError
    ELSE IF least.failed THEN Returned({})
    ELSE IF b.unbounded THEN UnboundedTail(node, line, least.states)
    ELSE ExtraLoop(node, line, b.m - b.n, least.states)

\* the brace branches of Quantified.match, b being the parsed brace text
BoundedMatch(node, b, line, state) ==
    IF b.raised THEN ValueError
    ELSE BoundedRest(node, b, line, MinLoop(node, line, b.n, {state}))

QuantifiedMatch(node, kind, line, state) ==
    IF kind = <<"?">> THEN OptionalMatch(node, line, state)
    ELSE IF kind = <<"+">> THEN PlusMatch(node, line, state)
    ELSE IF kind = <<"*">> THEN StarMatch(node, line, state)
    ELSE IF kind[1] = "{" /\ kind[Len(kind)] = "}"
    THEN BoundedMatch(node, Bounds(kind), line, state)
    ELSE Match(node, line, state)

\* left.match(line, state) | right.match(line, state)
AlternationResult(l, r) ==
    IF l.raised \/ r.raised THEN ValueError
    ELSE Returned(l.states \cup r.states)

\* CaptureGroupMatcher.match once the wrapped matcher has been applied
CaptureGroupResult(gid, line, state, results) ==
    IF results.raised THEN ValueError
    ELSE Returned(CaptureGroupMatch(gid, line, state, results.states))

\* matcher.match(line, state)
Match(node, line, state) ==
    CASE node.type = "LiteralMatcher" ->
             Returned(LiteralMatch(node.char, line, state))
      [] node.type = "DigitMatcher" -> Returned(DigitMatch(line, state))
      [] node.type = "WordMatcher" -> Returned(WordMatch(line, state))
      [] node.type = "AnyMatcher" -> Returned(AnyMatch(line, state))
      [] node.type = "CharClassMatcher" ->
             Returned(CharClassMatch(node.charset, node.negated, line, state))
      [] node.type = "AnchorStartMatcher" ->
             Returned(AnchorStartMatch(line, state))
      [] node.type = "AnchorEndMatcher" ->
             Returned(AnchorEndMatch(line, state))
      [] node.type = "BackreferenceMatcher" ->
             Returned(BackreferenceMatch(node.gid, line, state))
      [] node.type = "SequenceMatcher" ->
             SequenceLoop(node.matchers, 1, line, {state})
      [] node.type = "AlternationMatcher" ->
             AlternationResult(Match(node.left, line, state),
                               Match(node.right, line, state))
      [] node.type = "OptionalMatcher" ->
             OptionalMatch(node.matcher, line, state)
      [] node.type = "PlusMatcher" -> PlusMatch(node.matcher, line, state)
      [] node.type = "StarMatcher" -> StarMatch(node.matcher, line, state)
      [] node.type = "CaptureGroupMatcher" ->
             CaptureGroupResult(node.gid, line, state,
                                Match(node.matcher, line, state))
      [] node.type = "Quantified" ->
             QuantifiedMatch(node.node, node.kind, line, state)

(***************************************************************************)
(* The compilation cache: functools.lru_cache(maxsize) around              *)
(* compile_pattern (engine.py:15).  cache lists the entries [key, tree]    *)
(* from the least to the most recently used.  The wrapper looks the key    *)
(* up (a hit moves the entry to the most recent end), on a miss calls the  *)
(* wrapped function without holding anything, then stores the result       *)
(* unless the key has been stored meanwhile, dropping the oldest entry     *)
(* when the cache is full.                                                 *)
(***************************************************************************)
InCache(c, key) == \E k \in 1..Len(c) : c[k].key = key

CacheIndex(c, key) == CHOOSE k \in 1..Len(c) : c[k].key = key

CacheKeys(c) == [k \in 1..Len(c) |-> c[k].key]

Without(s, k) == SubSeq(s, 1, k - 1) \o SubSeq(s, k + 1, Len(s))

\* a hit that leaves the entry where it is: first in, first out
lru_hit_in_place(c, key) == c

\* a hit: the entry becomes the most recently used one
lru_hit(c, key) ==
    LET k == CacheIndex(c, key) IN Append(Without(c, k), c[k])

\* a hit that returns the tree of the most recent entry, whatever its key
lru_result_newest(c, key) == c[Len(c)].tree

\* the result a hit returns: the tree stored under key
lru_result(c, key) == c[CacheIndex(c, key)].tree

\* the store after a miss
lru_store(c, key, tree) ==
    IF InCache(c, key) THEN c
    ELSE IF Len(c) < maxsize THEN Append(c, [key |-> key, tree |-> tree])
    ELSE Append(Tail(c), [key |-> key, tree |-> tree])

\* copy.deepcopy of a matcher tree: a tree of the same shape and fields
deepcopy(tree) == tree

(***************************************************************************)
(* The scan driver (engine.py): the loop bodies of find_matches and        *)
(* match_pattern.                                                          *)
(***************************************************************************)
Max(S) == CHOOSE m \in S : \A n \in S : n <= m

\* range(n) as a list
range(n) == [k \in 1..n |-> k - 1]

\* the offsets match_pattern tests, in order
start_positions_of(line, pattern) ==
    IF startswith(pattern, "^") THEN <<0>> ELSE range(Len(line))

\* whether the while loop of find_matches runs its body at offset i
find_matches_continues(line, i) == i < Len(line)

\* the body of find_matches' loop once matcher.match has run:
\* [raised, i, matches, span]; span is the emitted match's <<start, end>>,
\* or <<>> when none is emitted
find_matches_emit(line, i, matches, next_states) ==
    IF next_states.raised
    THEN [raised |-> TRUE, i |-> i, matches |-> matches, span |-> <<>>]
    ELSE IF next_states.states = {}
    THEN [raised |-> FALSE, i |-> i + 1, matches |-> matches, span |-> <<>>]
    ELSE LET longest_pos == Max({st.pos : st \in next_states.states})
         IN  [raised |-> FALSE, i |-> max(longest_pos, i + 1),
              matches |-> Append(matches, Slice(line, i, longest_pos)),
              span |-> <<i, longest_pos>>]

\* one pass of the body of find_matches' loop
find_matches_body(matcher, line, i, matches) ==
    find_matches_emit(line, i, matches, Match(matcher, line, MatchState(i, {})))

\* the body of match_pattern's loop once matcher.match has run
match_pattern_test(next_states) ==
    IF next_states.raised THEN "raised"
    ELSE IF next_states.states # {} THEN "True"
    ELSE "continue"

\* one pass of the body of match_pattern's loop, at offset k
match_pattern_body(matcher, line, k) ==
    match_pattern_test(Match(matcher, line, MatchState(k, {})))

(***************************************************************************)
(* Results of a call.                                                      *)
(***************************************************************************)
NoResult == [kind |-> "none", matches |-> <<>>, bool |-> FALSE]
ReturnMatches(ms) == [kind |-> "matches", matches |-> ms, bool |-> FALSE]
ReturnBool(b) == [kind |-> "bool", matches |-> <<>>, bool |-> b]
RaiseParseError == [kind |-> "ParseError", matches |-> <<>>, bool |-> FALSE]
RaiseValueError == [kind |-> "ValueError", matches |-> <<>>, bool |-> FALSE]

(***************************************************************************)
(* find_matches and match_pattern as functions of their two arguments:     *)
(* the pattern parsed afresh and the loops run to their end.               *)
(***************************************************************************)
RECURSIVE find_loop(_, _, _, _)
RECURSIVE match_loop(_, _, _)

\* the loop of find_matches after one pass b of its body
find_loop_next(matcher, line, b) ==
    IF b.raised THEN RaiseValueError
    ELSE find_loop(matcher, line, b.i, b.matches)

\* the loop of find_matches from offset i on
find_loop(matcher, line, i, matches) ==
    IF find_matches_continues(line, i)
    THEN find_loop_next(matcher, line, find_matches_body(matcher, line, i, matches))
    ELSE ReturnMatches(matches)

\* find_matches once compile_pattern has returned or raised
find_matches_compiled(line, r) ==
    IF r.err THEN RaiseParseError ELSE find_loop(deepcopy(r.node), line, 0, <<>>)

find_matches(line, pattern) == find_matches_compiled(line, parse(pattern))

\* the loop of match_pattern after one pass of its body with outcome b
match_loop_next(matcher, line, positions, b) ==
    IF b = "raised" THEN RaiseValueError
    ELSE IF b = "True" THEN ReturnBool(TRUE)
    ELSE match_loop(matcher, line, Tail(positions))

\* the loop of match_pattern over the offsets still to test
match_loop(matcher, line, positions) ==
    IF positions # <<>>
    THEN match_loop_next(matcher, line, positions,
                         match_pattern_body(matcher, line, Head(positions)))
    ELSE ReturnBool(FALSE)

\* match_pattern once compile_pattern has returned or raised
match_pattern_compiled(line, pattern, r) ==
    IF r.err THEN RaiseParseError
    ELSE match_loop(deepcopy(r.node), line, start_positions_of(line, pattern))

match_pattern(line, pattern) ==
    match_pattern_compiled(line, pattern, parse(pattern))

(***************************************************************************)
(* Inputs.                                                                 *)
(***************************************************************************)
Threads == 1..NumThreads

Ops == {"find_matches", "match_pattern"}

Texts(chars, n) == UNION {[1..k -> chars] : k \in 0..n}

GenPatChars == {"a", "b", "|", "(", ")", BS, "1", "*"}

GenLineChars == {"a", "b"}

GenPatterns == Texts(GenPatChars, MaxPatLen)

GenLines == Texts(GenLineChars, MaxLineLen)

\* \d+
P_digits == <<"\\", "d", "+">>
\* \w+
P_words == <<"\\", "w", "+">>
\* a|ab
P_a_or_ab == <<"a", "|", "a", "b">>
\* $
P_end == <<"$">>
\* a*
P_astar == <<"a", "*">>
\* ^abc
P_caret_abc == <<"^", "a", "b", "c">>
\* hello
P_hello == <<"h", "e", "l", "l", "o">>
\* hell
P_hell == <<"h", "e", "l", "l">>
\* world
P_world == <<"w", "o", "r", "l", "d">>
\* a{2,3}
P_a23 == <<"a", "{", "2", ",", "3", "}">>
\* (ab)\1
P_ab_ref == <<"(", "a", "b", ")", "\\", "1">>
\* (a*)\1
P_astar_ref == <<"(", "a", "*", ")", "\\", "1">>
\* (a|ab)\1
P_alt_ref == <<"(", "a", "|", "a", "b", ")", "\\", "1">>
\* a{}
P_brace_empty == <<"a", "{", "}">>
\* a{,3}
P_brace_nomin == <<"a", "{", ",", "3", "}">>
\* a{,}
P_brace_comma == <<"a", "{", ",", "}">>
\* a{1,2,3}
P_brace_three == <<"a", "{", "1", ",", "2", ",", "3", "}">>
\* a{2
P_brace_open == <<"a", "{", "2">>
\* |a
P_bar_a == <<"|", "a">>
\* a|
P_a_bar == <<"a", "|">>
\* a||b
P_a_bar_bar_b == <<"a", "|", "|", "b">>
\* ()
P_empty_group == <<"(", ")">>
\* a)
P_close_paren == <<"a", ")">>
\* a\
P_dangling == <<"a", "\\">>
\* [ab
P_open_class == <<"[", "a", "b">>
\* (ab
P_open_group == <<"(", "a", "b">>
\* ^x|b
P_caret_x_or_b == <<"^", "x", "|", "b">>
\* (a|ab)(bc|c)\1
P_two_groups_ref == <<"(", "a", "|", "a", "b", ")", "(", "b", "c", "|", "c", ")", "\\", "1">>
\* [ab]+
P_class_plus == <<"[", "a", "b", "]", "+">>
\* a{2}
P_a2 == <<"a", "{", "2", "}">>
\* a{1,2}
P_a12 == <<"a", "{", "1", ",", "2", "}">>
\* a{1,}
P_a1_ == <<"a", "{", "1", ",", "}">>
\* (a?)*
P_opt_star == <<"(", "a", "?", ")", "*">>
\* (^)+
P_caret_plus == <<"(", "^", ")", "+">>
\* (a*)*
P_star_star == <<"(", "a", "*", ")", "*">>
\* ^
P_caret == <<"^">>
\* a{3,2}
P_a32 == <<"a", "{", "3", ",", "2", "}">>
\* a{0}
P_a0 == <<"a", "{", "0", "}">>
\* a{0,2}
P_a02 == <<"a", "{", "0", ",", "2", "}">>
\* (a|b){2}
P_alt2 == <<"(", "a", "|", "b", ")", "{", "2", "}">>
\* a.$
P_any_end == <<"a", ".", "$">>
\* (b?)\1*
P_ref_star == <<"(", "b", "?", ")", "\\", "1", "*">>
\* (a|b*)+
P_alt_plus == <<"(", "a", "|", "b", "*", ")", "+">>
\* a+
P_aplus == <<"a", "+">>
\* (a)\1
P_a_ref == <<"(", "a", ")", "\\", "1">>
\* b
P_b == <<"b">>

\* "abab"
L_abab == <<"a", "b", "a", "b">>
\* "abcd"
L_abcd == <<"a", "b", "c", "d">>
\* "aaaa"
L_aaaa == <<"a", "a", "a", "a">>
\* "abc"
L_abc == <<"a", "b", "c">>
\* "hello"
L_hello == <<"h", "e", "l", "l", "o">>
\* "abc 123 def 456"
L_digits == <<"a", "b", "c", " ", "1", "2", "3", " ", "d", "e", "f", " ", "4", "5", "6">>
\* "hello_world 42"
L_words == <<"h", "e", "l", "l", "o", "_", "w", "o", "r", "l", "d", " ", "4", "2">>
\* "abcab"
L_abcab == <<"a", "b", "c", "a", "b">>
\* "aab"
L_aab == <<"a", "a", "b">>

NamedPatterns ==
    {P_digits,
     P_words,
     P_a_or_ab,
     P_end,
     P_astar,
     P_caret_abc,
     P_hello,
     P_hell,
     P_world,
     P_a23,
     P_ab_ref,
     P_astar_ref,
     P_alt_ref,
     P_brace_empty,
     P_brace_nomin,
     P_brace_comma,
     P_brace_three,
     P_brace_open,
     P_bar_a,
     P_a_bar,
     P_a_bar_bar_b,
     P_empty_group,
     P_close_paren,
     P_dangling,
     P_open_class,
     P_open_group,
     P_caret_x_or_b,
     P_two_groups_ref,
     P_class_plus,
     P_a2,
     P_a12,
     P_a1_,
     P_opt_star,
     P_caret_plus,
     P_star_star,
     P_caret,
     P_a32,
     P_a0,
     P_a02,
     P_alt2,
     P_any_end,
     P_ref_star,
     P_alt_plus,
     P_aplus,
     P_a_ref,
     P_b}

NamedLines ==
    {L_abab, L_abcd, L_aaaa, L_abc, L_hello, L_digits, L_words, L_abcab, L_aab}

\* the <<line, pattern>> pairs of the scan specification
ScanCases ==
    ((GenLines \cup NamedLines) \X NamedPatterns) \cup (GenLines \X GenPatterns)

\* the patterns and lines of the sequential cache specification
SeqPatterns == {P_aplus, P_a_or_ab, P_a_ref, P_b, P_astar, P_a_bar}
SeqLines == {L_aab}

\* the patterns and lines of the concurrent specification
ConcPatterns == {P_aplus, P_a_or_ab, P_b}
ConcLines == {<<"a", "b">>}

(***************************************************************************)
(* The state.  cache is the process-wide cache of compile_pattern; every   *)
(* other variable is indexed by the calling thread and holds the locals    *)
(* of its call of find_matches or match_pattern.                           *)
(***************************************************************************)
VARIABLES
    cache,            \* the lru_cache of compile_pattern, oldest entry first
    pc,               \* where each caller is in its call
    op,               \* the function called: find_matches or match_pattern
    line,             \* argument line
    pattern,          \* argument pattern
    matcher,          \* local matcher (before the store: the parsed tree)
    i,                \* local i of find_matches
    matches,          \* local matches of find_matches
    start_positions,  \* the offsets match_pattern has still to test
    result,           \* what the call returned or raised
    tested,           \* history: the offsets passed to matcher.match
    spans,            \* history: <<start, end>> of each emitted match
    recent            \* history: the keys inserted or hit, least recent first

vars == <<cache, pc, op, line, pattern, matcher, i, matches, start_positions,
          result, tested, spans, recent>>

\* recent with key moved to the most recent end
Touch(r, key) == SelectSeq(r, LAMBDA q : q # key) \o <<key>>

InitLocals ==
    /\ matcher = [t \in Threads |-> NoMatcher]
    /\ i = [t \in Threads |-> 0]
    /\ matches = [t \in Threads |-> <<>>]
    /\ start_positions = [t \in Threads |-> <<>>]
    /\ result = [t \in Threads |-> NoResult]
    /\ tested = [t \in Threads |-> <<>>]
    /\ spans = [t \in Threads |-> <<>>]

\* the process has started and no request has arrived
Init ==
    /\ cache = <<>>
    /\ recent = <<>>
    /\ pc = [t \in Threads |-> "idle"]
    /\ op = [t \in Threads |-> "none"]
    /\ line = [t \in Threads |-> <<>>]
    /\ pattern = [t \in Threads |-> <<>>]
    /\ InitLocals

\* one call, find_matches(l, p) or match_pattern(l, p), in a fresh process
InitScan ==
    /\ cache = <<>>
    /\ recent = <<>>
    /\ \E o \in Ops, c \in ScanCases :
          /\ pc = [t \in Threads |-> IF t = 1 THEN "lookup" ELSE "idle"]
          /\ op = [t \in Threads |-> IF t = 1 THEN o ELSE "none"]
          /\ line = [t \in Threads |-> IF t = 1 THEN c[1] ELSE <<>>]
          /\ pattern = [t \in Threads |-> IF t = 1 THEN c[2] ELSE <<>>]
    /\ InitLocals

(***************************************************************************)
(* The steps of a call.                                                    *)
(***************************************************************************)
\* thread t calls find_matches(l, p) or match_pattern(l, p)
Call(t, lines, patterns) ==
    /\ pc[t] \in {"idle", "done"}
    /\ \E o \in Ops, l \in lines, p \in patterns :
          /\ op' = [op EXCEPT ![t] = o]
          /\ line' = [line EXCEPT ![t] = l]
          /\ pattern' = [pattern EXCEPT ![t] = p]
    /\ pc' = [pc EXCEPT ![t] = "lookup"]
    /\ matcher' = [matcher EXCEPT ![t] = NoMatcher]
    /\ i' = [i EXCEPT ![t] = 0]
    /\ matches' = [matches EXCEPT ![t] = <<>>]
    /\ start_positions' = [start_positions EXCEPT ![t] = <<>>]
    /\ result' = [result EXCEPT ![t] = NoResult]
    /\ tested' = [tested EXCEPT ![t] = <<>>]
    /\ spans' = [spans EXCEPT ![t] = <<>>]
    /\ UNCHANGED <<cache, recent>>

\* the locals of the scan once compile_pattern has returned tree
StartScan(t, tree) ==
    /\ matcher' = [matcher EXCEPT ![t] = deepcopy(tree)]
    /\ i' = [i EXCEPT ![t] = 0]
    /\ matches' = [matches EXCEPT ![t] = <<>>]
    /\ start_positions' =
           [start_positions EXCEPT ![t] = start_positions_of(line[t], pattern[t])]
    /\ pc' = [pc EXCEPT ![t] = op[t]]

\* compile_pattern(pattern): the cache lookup of the lru_cache wrapper
Lookup(t) ==
    /\ pc[t] = "lookup"
    /\ IF InCache(cache, pattern[t])
       THEN /\ cache' = lru_hit(cache, pattern[t])
            /\ recent' = Touch(recent, pattern[t])
            /\ StartScan(t, lru_result(cache, pattern[t]))
       ELSE /\ pc' = [pc EXCEPT ![t] = "parse"]
            /\ UNCHANGED <<cache, recent, matcher, i, matches, start_positions>>
    /\ UNCHANGED <<op, line, pattern, result, tested, spans>>

\* compile_pattern's body has run, r being what parse() gave
Compiled(t, r) ==
    /\ result' = [result EXCEPT ![t] = IF r.err THEN RaiseParseError ELSE @]
    /\ pc' = [pc EXCEPT ![t] = IF r.err THEN "done" ELSE "store"]
    /\ matcher' = [matcher EXCEPT ![t] = IF r.err THEN @ ELSE r.node]

\* the body of compile_pattern: PatternParser(pattern).parse()
Parse(t) ==
    /\ pc[t] = "parse"
    /\ Compiled(t, parse(pattern[t]))
    /\ UNCHANGED <<cache, recent, op, line, pattern, i, matches,
                   start_positions, tested, spans>>

\* the lru_cache wrapper stores the parsed tree and compile_pattern returns
Store(t) ==
    /\ pc[t] = "store"
    /\ cache' = lru_store(cache, pattern[t], matcher[t])
    /\ recent' = IF InCache(cache, pattern[t]) THEN recent
                 ELSE Touch(recent, pattern[t])
    /\ StartScan(t, matcher[t])
    /\ UNCHANGED <<op, line, pattern, result, tested, spans>>

\* find_matches: what one pass b of the loop body leaves in the locals
FindPass(t, b) ==
    /\ tested' = [tested EXCEPT ![t] = Append(@, i[t])]
    /\ i' = [i EXCEPT ![t] = b.i]
    /\ matches' = [matches EXCEPT ![t] = b.matches]
    /\ spans' = [spans EXCEPT ![t] = IF b.span = <<>> THEN @ ELSE Append(@, b.span)]
    /\ result' = [result EXCEPT ![t] = IF b.raised THEN RaiseValueError ELSE @]
    /\ pc' = [pc EXCEPT ![t] = IF b.raised THEN "done" ELSE @]

\* find_matches: the loop test and one pass of the body, or the return
FindStep(t) ==
    /\ pc[t] = "find_matches"
    /\ IF find_matches_continues(line[t], i[t])
       THEN FindPass(t, find_matches_body(matcher[t], line[t], i[t], matches[t]))
       ELSE /\ result' = [result EXCEPT ![t] = ReturnMatches(matches[t])]
            /\ pc' = [pc EXCEPT ![t] = "done"]
            /\ UNCHANGED <<i, matches, tested, spans>>
    /\ UNCHANGED <<cache, recent, op, line, pattern, matcher, start_positions>>

\* match_pattern: what one pass of the for loop leaves, b being its outcome
MatchPass(t, b) ==
    /\ tested' = [tested EXCEPT ![t] = Append(@, Head(start_positions[t]))]
    /\ start_positions' = [start_positions EXCEPT ![t] = Tail(@)]
    /\ result' = [result EXCEPT ![t] =
                     IF b = "raised" THEN RaiseValueError
                     ELSE IF b = "True" THEN ReturnBool(TRUE)
                     ELSE @]
    /\ pc' = [pc EXCEPT ![t] = IF b = "continue" THEN @ ELSE "done"]

\* match_pattern: one pass of the for loop, or the return after it
MatchStep(t) ==
    /\ pc[t] = "match_pattern"
    /\ IF start_positions[t] # <<>>
       THEN MatchPass(t, match_pattern_body(matcher[t], line[t],
                                            Head(start_positions[t])))
       ELSE /\ result' = [result EXCEPT ![t] = ReturnBool(FALSE)]
            /\ pc' = [pc EXCEPT ![t] = "done"]
            /\ UNCHANGED <<start_positions, tested>>
    /\ UNCHANGED <<cache, recent, op, line, pattern, matcher, i, matches,
                   spans>>

\* the steps of a call in progress
Step(t) ==
    \/ Lookup(t)
    \/ Parse(t)
    \/ Store(t)
    \/ FindStep(t)
    \/ MatchStep(t)

\* concurrent callers: the threads of the web server, each serving calls
Next == \E t \in Threads : Call(t, ConcLines, ConcPatterns) \/ Step(t)

Spec == Init /\ [][Next]_vars

\* one caller at a time: a sequence of calls
NextSeq == Call(1, SeqLines, SeqPatterns) \/ Step(1)

SeqSpec == Init /\ [][NextSeq]_vars

\* one call on a fresh cache
NextScan == Step(1)

ScanSpec == InitScan /\ [][NextScan]_vars

(***************************************************************************)
(* Properties.  A finished call is one whose pc is "done"; tested and      *)
(* spans record what its scan did.                                         *)
(***************************************************************************)
Range(s) == {s[k] : k \in 1..Len(s)}

\* the end positions in what matcher.match returned
EndsOf(r) == IF r.raised THEN {} ELSE {st.pos : st \in r.states}

\* the end positions of the result set of tree on l from a fresh state at k
Ends(tree, l, k) == EndsOf(Match(tree, l, MatchState(k, {})))

\* where the scan resumes after offset o, ends being the result set's ends
ResumeOf(o, ends) == IF ends = {} THEN o + 1 ELSE max(Max(ends), o + 1)

\* a finished find_matches call whose pattern compiled
FindFinished(t) ==
    /\ pc[t] = "done"
    /\ op[t] = "find_matches"
    /\ result[t].kind # "ParseError"

\* the k-th emitted match starts at a tested offset with a non-empty result
\* set, ends at the greatest end of ALL result states, is that slice of the
\* line, and starts at or after the end of the previous match
EmittedLongest(t, k, ends) ==
    /\ spans[t][k][1] \in Range(tested[t])
    /\ ends # {}
    /\ spans[t][k][2] = Max(ends)
    /\ result[t].matches[k] = Slice(line[t], spans[t][k][1], spans[t][k][2])
    /\ k > 1 => spans[t][k][1] >= spans[t][k - 1][2]

\* the k-th tested offset emits exactly when its result set is non-empty,
\* and the scan resumes at max(e, i + 1), or at i + 1 when nothing matched
TestedInOrder(t, k, ends) ==
    /\ (ends # {}) <=> (\E s \in Range(spans[t]) : s[1] = tested[t][k])
    /\ IF k < Len(tested[t])
       THEN tested[t][k + 1] = ResumeOf(tested[t][k], ends)
       ELSE ResumeOf(tested[t][k], ends) >= Len(line[t])

LeftmostLongest(t) ==
    /\ result[t].kind = "matches"
    /\ Len(result[t].matches) = Len(spans[t])
    /\ tested[t] # <<>> => tested[t][1] = 0
    /\ \A k \in 1..Len(spans[t]) :
          EmittedLongest(t, k, Ends(matcher[t], line[t], spans[t][k][1]))
    /\ \A k \in 1..Len(tested[t]) :
          TestedInOrder(t, k, Ends(matcher[t], line[t], tested[t][k]))

\* the maximal runs of characters of class cls in l, as <<start, end>>
Runs(l, cls) ==
    {s \in (0..Len(l)) \X (0..Len(l)) :
        /\ s[1] < s[2]
        /\ \A k \in (s[1] + 1)..s[2] : l[k] \in cls
        /\ s[1] = 0 \/ l[s[1]] \notin cls
        /\ s[2] = Len(l) \/ l[s[2] + 1] \notin cls}

WordChars == DigitChars \cup LetterChars \cup {"_"}

MaximalRuns(t) ==
    /\ pattern[t] = P_digits => Range(spans[t]) = Runs(line[t], DigitChars)
    /\ pattern[t] = P_words => Range(spans[t]) = Runs(line[t], WordChars)
    /\ (pattern[t] = P_digits /\ line[t] = L_digits) =>
           result[t].matches = << <<"1", "2", "3">>, <<"4", "5", "6">> >>
    /\ (pattern[t] = P_words /\ line[t] = L_words) =>
           result[t].matches =
               << <<"h", "e", "l", "l", "o", "_", "w", "o", "r", "l", "d">>,
                  <<"4", "2">> >>
    /\ (pattern[t] = P_a_or_ab /\ line[t] = <<"a", "b">>) =>
           result[t].matches = << <<"a", "b">> >>

\* the scan makes progress: each pass tests a new, greater offset below
\* len(line), so it ends after at most len(line) passes
ScanTerminates(t) ==
    /\ Len(tested[t]) <= Len(line[t])
    /\ \A k \in 1..Len(tested[t]) : tested[t][k] < Len(line[t])
    /\ \A k \in 1..(Len(tested[t]) - 1) : tested[t][k] < tested[t][k + 1]

\* C1: for every line and every pattern that compile_pattern accepts,
\* find_matches returns the left-to-right, non-overlapping,
\* longest-at-each-start matches: each emitted match is line[i:e] with e the
\* greatest end over all result states at the first offset i with a
\* non-empty result set, the scan resumes at max(e, i + 1), matches do not
\* overlap, the scan terminates, and \d+ and \w+ give the maximal runs of
\* digit and word characters.
C1_LeftmostLongest ==
    \A t \in Threads :
        /\ op[t] = "find_matches" => ScanTerminates(t)
        /\ FindFinished(t) => LeftmostLongest(t) /\ MaximalRuns(t)

\* C2: find_matches evaluates the tree at every starting offset from 0 up
\* to and including len(line): a finished scan has tested offset len(line),
\* a pattern whose result set at len(line) is non-empty yields a match
\* starting there, find_matches("", "a*") is one empty match and
\* find_matches("abc", "$") is non-empty.
C2_TestsEndOfLine ==
    \A t \in Threads :
        (FindFinished(t) /\ result[t].kind = "matches") =>
            /\ Len(line[t]) \in Range(tested[t])
            /\ Ends(matcher[t], line[t], Len(line[t])) # {} =>
                   \E s \in Range(spans[t]) : s[1] = Len(line[t])
            /\ (line[t] = <<>> /\ pattern[t] = P_astar) =>
                   result[t].matches = << <<>> >>
            /\ (line[t] = L_abc /\ pattern[t] = P_end) =>
                   result[t].matches # <<>>

\* a finished match_pattern call whose pattern compiled
MatchFinished(t) ==
    /\ pc[t] = "done"
    /\ op[t] = "match_pattern"
    /\ result[t].kind # "ParseError"

\* the offsets of a line that match_pattern's loop ranges over
Offsets(l) == {k \in 0..Len(l) : k < Len(l)}

\* the offsets match_pattern may test: 0 alone under a leading ^
Candidates(t) ==
    IF pattern[t] # <<>> /\ pattern[t][1] = "^" THEN {0} ELSE Offsets(line[t])

\* every offset tested so far is a candidate, in increasing order from the
\* first one on, and all but the last tested have an empty result set
TestedPrefix(t) ==
    /\ Range(tested[t]) \subseteq Candidates(t)
    /\ \A k \in 1..Len(tested[t]) : tested[t][k] = k - 1
    /\ \A k \in 1..(Len(tested[t]) - 1) :
          Ends(matcher[t], line[t], tested[t][k]) = {}

\* True is returned at the first offset with a non-empty result set, False
\* iff no candidate offset has one
FirstSuccess(t) ==
    /\ result[t].kind = "bool"
    /\ result[t].bool =>
          /\ tested[t] # <<>>
          /\ Ends(matcher[t], line[t], tested[t][Len(tested[t])]) # {}
    /\ ~result[t].bool =>
          /\ Range(tested[t]) = Candidates(t)
          /\ \A k \in Candidates(t) : Ends(matcher[t], line[t], k) = {}

\* pattern p occurs in line l as a substring
Occurs(p, l) ==
    \E k \in 0..(Len(l) - Len(p)) : \A j \in 1..Len(p) : l[k + j] = p[j]

\* a non-empty pattern made of letters only
IsLiteral(p) == p # <<>> /\ \A k \in 1..Len(p) : p[k] \in LetterChars

LiteralIsSubstring(t) ==
    IsLiteral(pattern[t]) => (result[t].bool <=> Occurs(pattern[t], line[t]))

\* C3: match_pattern tests offset 0 alone when the pattern text begins with
\* ^, otherwise every offset in increasing order; it returns True at the
\* first offset whose result set is non-empty and False iff no offset has
\* one; for a pattern of literal characters it is True exactly when the
\* pattern occurs in the line.
C3_FirstSuccess ==
    \A t \in Threads :
        /\ (op[t] = "match_pattern" /\ matcher[t] # NoMatcher) => TestedPrefix(t)
        /\ MatchFinished(t) => FirstSuccess(t) /\ LiteralIsSubstring(t)

\* the number of consecutive characters c in l from offset o on
RunLen(l, o, c) ==
    Max({k \in 0..(Len(l) - o) : \A j \in 1..k : l[o + j] = c})

min(a, b) == IF a <= b THEN a ELSE b

\* the patterns a{n,m} scanned, with their n and m
BraceCases == {<<P_a23, 2, 3>>, <<P_a2, 2, 2>>, <<P_a12, 1, 2>>}

\* at each tested offset with at least n a's ahead the match takes
\* min(m, run) of them; an offset with fewer than n emits nothing
GreedyRuns(t, n, m) ==
    /\ result[t].kind = "matches"
    /\ \A k \in 1..Len(tested[t]) :
          IF RunLen(line[t], tested[t][k], "a") >= n
          THEN <<tested[t][k],
                 tested[t][k] + min(m, RunLen(line[t], tested[t][k], "a"))>>
                   \in Range(spans[t])
          ELSE \A s \in Range(spans[t]) : s[1] # tested[t][k]

Fresh(o) == MatchState(o, {})

\* the states of what matcher.match returned
StatesOf(r) == IF r.raised THEN {} ELSE r.states

\* the tree of a pattern (X)\1: group 1 around X, then a reference to it
IsGroupThenRef(tree) ==
    /\ tree.type = "SequenceMatcher"
    /\ Len(tree.matchers) = 2
    /\ tree.matchers[1].type = "CaptureGroupMatcher"
    /\ tree.matchers[2] = BackreferenceMatcher(tree.matchers[1].gid)

\* line[a:b] = line[b:b + (b - a)], compared character by character
Repeats(l, a, b) ==
    /\ b + (b - a) <= Len(l)
    /\ \A j \in 1..(b - a) : l[b + j] = l[a + j]

\* what (X)\1 must return from a fresh state at o, inner being the result
\* states of X there: for each of them that is followed by a copy of the
\* text it consumed, the state after the copy, with that text in the group
SquareStates(l, gid, o, inner) ==
    {MatchState(s.pos + (s.pos - o),
                {g \in s.groups : g[1] # gid}
                    \cup {<<gid, [j \in 1..(s.pos - o) |-> l[o + j]]>>}) :
         s \in {s \in inner : Repeats(l, o, s.pos)}}

\* (X)\1 at the tested offsets: exactly the squares of what X captured
GroupThenRefExact(t, o) ==
    StatesOf(Match(matcher[t], line[t], Fresh(o))) =
        SquareStates(line[t], matcher[t].matchers[1].gid, o,
                     StatesOf(Match(matcher[t].matchers[1].matcher, line[t],
                                    Fresh(o))))

\* what CaptureGroup(X, gid) must return from a fresh state at o
CapturedStates(l, gid, o, inner) ==
    {MatchState(s.pos,
                {g \in s.groups : g[1] # gid}
                    \cup {<<gid, [j \in 1..(s.pos - o) |-> l[o + j]]>>}) :
         s \in inner}

CaptureExact(t, o) ==
    StatesOf(Match(matcher[t], line[t], Fresh(o))) =
        CapturedStates(line[t], matcher[t].gid, o,
                       StatesOf(Match(matcher[t].matcher, line[t], Fresh(o))))

\* the states a reference to group 1 is tried from: any offset of the line,
\* group 1 absent or holding any slice of the line
RefStates(l) ==
    {MatchState(o, {}) : o \in 0..Len(l)}
        \cup {MatchState(o, {<<1, Slice(l, a, b)>>}) :
                  o \in 0..Len(l), a \in 0..Len(l), b \in 0..Len(l)}
        \cup {MatchState(o, {<<1, <<"b", "a">> >>}) : o \in 0..Len(l)}

\* what Backreference(gid) must return from state s
RefExpected(l, gid, s) ==
    IF \A g \in s.groups : g[1] # gid THEN {}
    ELSE {MatchState(s.pos + Len(g[2]), s.groups) :
              g \in {g \in s.groups :
                        /\ g[1] = gid
                        /\ s.pos + Len(g[2]) <= Len(l)
                        /\ \A j \in 1..Len(g[2]) : l[s.pos + j] = g[2][j]}}

\* a tree that starts with a reference to a group that is still unset
StartsWithRef(tree) ==
    \/ tree.type = "BackreferenceMatcher"
    \/ /\ tree.type = "SequenceMatcher"
       /\ tree.matchers[1].type = "BackreferenceMatcher"

\* a finished call whose pattern compiled
Scanned(t) == pc[t] = "done" /\ matcher[t] # NoMatcher

BackrefPaths(t) ==
    /\ IsGroupThenRef(matcher[t]) =>
          \A o \in Range(tested[t]) : GroupThenRefExact(t, o)
    /\ matcher[t].type = "CaptureGroupMatcher" =>
          \A o \in Range(tested[t]) : CaptureExact(t, o)
    /\ StartsWithRef(matcher[t]) =>
          \A o \in Range(tested[t]) : Ends(matcher[t], line[t], o) = {}
    /\ \A s \in RefStates(line[t]) :
          StatesOf(Match(BackreferenceMatcher(1), line[t], s)) =
              RefExpected(line[t], 1, s)

BackrefExamples(t) ==
    /\ (pattern[t] = P_ab_ref /\ line[t] = L_abab) =>
           result[t].matches = << <<"a", "b", "a", "b">> >>
    /\ (pattern[t] = P_ab_ref /\ line[t] = L_abcd) => result[t].matches = <<>>
    /\ (pattern[t] = P_astar_ref /\ line[t] = <<"b">>) =>
           result[t].matches = << <<>> >>
    /\ (pattern[t] = P_alt_ref /\ line[t] = L_abab) =>
           result[t].matches = << <<"a", "b", "a", "b">> >>

\* C5: a backreference matches exactly the text its group captured on the
\* same path: CaptureGroup(node, id) sets groups[id] to line[entry:result]
\* for each result state of node; Backreference(id) returns nothing when id
\* is unset, and otherwise the single state after a copy of groups[id] iff
\* the line continues with that copy (an empty capture matches zero-width).
\* find_matches("abab", "(ab)\1") = ["abab"], find_matches("abcd", "(ab)\1")
\* = [].
C5_Backreference ==
    \A t \in Threads :
        /\ Scanned(t) => BackrefPaths(t)
        /\ FindFinished(t) => BackrefExamples(t)

C5_Witness ==
    \E t \in Threads :
        /\ FindFinished(t)
        /\ pattern[t] = P_alt_ref
        /\ line[t] = L_abab
        /\ tested[t] = <<0>>
        /\ result[t].matches = << <<"a", "b", "a", "b">> >>
        /\ Match(matcher[t], line[t], Fresh(0)).states =
               {MatchState(4, {<<1, <<"a", "b">> >>})}

\* C6: match time has no error condition: for every tree compile_pattern
\* returns, every line and every start offset, match() returns a set of
\* states and never raises; no call ends in an exception other than
\* ParseError, the brace patterns a{}, a{,3}, a{,} and a{1,2,3} included.
C6_NeverRaises ==
    \A t \in Threads :
        /\ result[t].kind # "ValueError"
        /\ matcher[t] # NoMatcher =>
               \A o \in 0..Len(line[t]) :
                   ~Match(matcher[t], line[t], Fresh(o)).raised

\* the number of characters c among the first k of p
Count(p, c, k) == Cardinality({j \in 1..k : p[j] = c})

\* no escape, character class or brace: every character of p is read by
\* the grammar of expressions, terms and groups
Plain(p) == \A k \in 1..Len(p) : p[k] \notin {BS, "[", "]", "{", "}"}

\* an empty term between bars or at a group boundary
EmptyTerm(p) ==
    /\ p # <<>>
    /\ Plain(p)
    /\ \/ p[1] = "|"
       \/ p[Len(p)] = "|"
       \/ \E k \in 1..(Len(p) - 1) :
              <<p[k], p[k + 1]>> \in
                  {<<"|", "|">>, <<"(", ")">>, <<"(", "|">>, <<"|", ")">>}

\* a ) that closes no group
UnmatchedClose(p) ==
    Plain(p) /\ \E k \in 1..Len(p) : Count(p, ")", k) > Count(p, "(", k)

\* a group without its closing )
OpenGroup(p) == Plain(p) /\ Count(p, "(", Len(p)) > Count(p, ")", Len(p))

\* the number of backslashes p ends with
TrailingBS(p) ==
    Max({k \in 0..Len(p) : \A j \in 1..k : p[Len(p) + 1 - j] = BS})

\* a backslash at the end that escapes nothing
DanglingBackslash(p) ==
    (\A k \in 1..Len(p) : p[k] # "[") /\ TrailingBS(p) % 2 = 1

\* a character class without its closing ]
OpenClass(p) ==
    /\ \A k \in 1..Len(p) : p[k] \notin {BS, "]"}
    /\ \E k \in 1..Len(p) : p[k] = "["

\* digits, digits followed by a comma, or digits,digits
BraceBodyOK(body) ==
    /\ body # <<>>
    /\ isdigit(body[1])
    /\ \A k \in 1..Len(body) : isdigit(body[k]) \/ body[k] = ","
    /\ Count(body, ",", Len(body)) <= 1

\* the index of the first } after index k, or 0
ClosingBrace(p, k) ==
    IF \E j \in (k + 1)..Len(p) : p[j] = "}"
    THEN CHOOSE j \in (k + 1)..Len(p) :
             p[j] = "}" /\ \A h \in (k + 1)..(j - 1) : p[h] # "}"
    ELSE 0

\* a brace quantifier after a letter that lacks its } or has a malformed body
BadBrace(p) ==
    /\ \A k \in 1..Len(p) : p[k] \notin {BS, "[", "]"}
    /\ \E k \in 2..Len(p) :
          /\ p[k] = "{"
          /\ p[k - 1] \in LetterChars
          /\ \/ ClosingBrace(p, k) = 0
             \/ ~BraceBodyOK(SubSeq(p, k + 1, ClosingBrace(p, k) - 1))

GrammarViolation(p) ==
    \/ EmptyTerm(p)
    \/ UnmatchedClose(p)
    \/ OpenGroup(p)
    \/ DanglingBackslash(p)
    \/ OpenClass(p)
    \/ BadBrace(p)

\* compile_pattern has returned or raised in the call of t
CompileOver(t) == pc[t] \in {"store", "find_matches", "match_pattern", "done"}

\* C7: compile_pattern ends in ParseError, returns no tree and raises
\* nothing else, for every pattern with a listed grammar violation: an
\* empty term between bars or at a group boundary, an unmatched ), a
\* dangling backslash, a class without ], a group without ), a brace
\* quantifier without } or whose body is not digits, digits, or
\* digits,digits.
C7_Rejected ==
    \A t \in Threads :
        (CompileOver(t) /\ GrammarViolation(pattern[t])) =>
            /\ result[t].kind = "ParseError"
            /\ matcher[t] = NoMatcher

\* the last n elements of s, or all of s when it has fewer
LastN(s, n) == SubSeq(s, max(1, Len(s) - n + 1), Len(s))

Distinct(s) == \A j, k \in 1..Len(s) : j # k => s[j] # s[k]

\* at most maxsize entries, one per pattern
CacheBounded == Len(cache) <= maxsize /\ Distinct(CacheKeys(cache))

\* the entries are the most recently used patterns, least recent first
CacheMostRecent == CacheKeys(cache) = LastN(recent, maxsize)

\* what parse gave for the key of a sound entry: no error and the entry's tree
Compiles(r, tree) == ~r.err /\ r.node = tree

\* the patterns and lines of the calls of SeqSpec and Spec
CallPatterns == SeqPatterns \cup ConcPatterns
CallLines == SeqLines \cup ConcLines

\* what parse gives for each of them
ParseOf == [p \in CallPatterns |-> parse(p)]

\* every entry holds the tree of a pattern that compiled
CacheSound ==
    \A k \in 1..Len(cache) : Compiles(ParseOf[cache[k].key], cache[k].tree)

\* a pattern that is in the cache is not being parsed
NoReparse == \A t \in Threads : pc[t] \in {"parse", "store"} => ~InCache(cache, pattern[t])

\* a hit: no parse, the pattern becomes the most recently used, no other
\* entry moves or leaves
HitStep(t) ==
    /\ pc'[t] = op[t]
    /\ matcher'[t] = lru_result(cache, pattern[t])
    /\ cache'[Len(cache')].key = pattern[t]
    /\ Len(cache') = Len(cache)
    /\ SelectSeq(CacheKeys(cache'), LAMBDA q : q # pattern[t]) =
           SelectSeq(CacheKeys(cache), LAMBDA q : q # pattern[t])

\* a miss parses; a ParseError adds no entry and evicts nothing
MissStep(t) == pc'[t] = "parse" /\ cache' = cache

ParseStep(t) ==
    /\ cache' = cache
    /\ pc'[t] = "done" => result'[t].kind = "ParseError"

\* the insert: the pattern becomes the most recently used and, when the
\* cache is full, exactly the least recently used entry leaves
InsertStep(t) ==
    CacheKeys(cache') =
        (IF Len(cache) = maxsize THEN Tail(CacheKeys(cache)) ELSE CacheKeys(cache))
            \o <<pattern[t]>>

CacheStep(t) ==
    /\ (pc[t] = "lookup" /\ pc'[t] # "lookup") =>
           IF InCache(cache, pattern[t]) THEN HitStep(t) ELSE MissStep(t)
    /\ (pc[t] = "parse" /\ pc'[t] # "parse") => ParseStep(t)
    /\ (pc[t] = "store" /\ pc'[t] # "store") => InsertStep(t)

\* a step that is neither a lookup nor an insert leaves the cache alone
OtherStep ==
    (\A u \in Threads : pc[u] = pc'[u] \/ pc[u] \notin {"lookup", "store"})
        => cache' = cache

\* C8: after any sequence of compile_pattern calls the cache holds at most
\* maxsize entries, one per pattern, and they are exactly the most recently
\* used patterns that compiled; a hit moves the pattern to most recently
\* used without parsing, a miss parses and inserts and, when the cache is
\* full, evicts exactly the least recently used entry, so an evicted pattern
\* is parsed again on its next use while a cached one is not; a ParseError
\* adds no entry and evicts nothing.
C8_LeastRecentlyUsed ==
    /\ [](CacheBounded /\ CacheMostRecent /\ CacheSound /\ NoReparse)
    /\ [][OtherStep /\ \A t \in Threads : CacheStep(t)]_vars

\* a pattern used before and since evicted is being parsed again, the cache
\* being full of more recently used patterns
C8_Witness ==
    /\ pc[1] = "parse"
    /\ pattern[1] \in Range(recent)
    /\ Len(cache) = maxsize
    /\ CacheKeys(cache) = LastN(recent, maxsize)
    /\ Len(recent) > maxsize

\* between its miss and its insert
InFlight(t) == pc[t] \in {"parse", "store"}

\* the step is a cache access of u: its lookup or its insert
Accesses(u) == pc[u] \in {"lookup", "store"} /\ pc'[u] # pc[u]

\* no call accesses the cache while another is between miss and insert
Exclusive ==
    \A t \in Threads, u \in Threads : (t # u /\ InFlight(t)) => ~Accesses(u)

\* the pattern compile_pattern has just returned a tree for is the most
\* recently used entry
ReturnedIsNewest(t) ==
    (pc[t] \in {"lookup", "store"} /\ pc'[t] = op[t]) =>
        cache'[Len(cache')].key = pattern[t]

\* C9: with several callers at once, cache mutation is serialized: lookup,
\* insert and eviction of a call form one mutual-exclusion section, no other
\* call's cache access falls between a call's miss and its insert, and in
\* every interleaving the cache keeps at most maxsize entries, no pattern
\* twice, in least-recently-used order.
C9_Serialized ==
    /\ [](CacheBounded /\ CacheMostRecent)
    /\ [][Exclusive /\ \A t \in Threads : ReturnedIsNewest(t)]_vars

\* what each function returns or raises for its two arguments alone: the
\* pattern parsed afresh, the scan run on a tree nobody shares
AloneOf ==
    [o \in Ops, l \in CallLines, p \in CallPatterns |->
        IF o = "find_matches" THEN find_matches(l, p) ELSE match_pattern(l, p)]

Alone(t) == AloneOf[op[t], line[t], pattern[t]]

\* the entries that stay in the cache keep their trees
TreesKept ==
    \A j \in 1..Len(cache), k \in 1..Len(cache') :
        cache[j].key = cache'[k].key => cache[j].tree = cache'[k].tree

\* C10: find_matches(line, pattern) and match_pattern(line, pattern) depend
\* on their two arguments only: whatever calls came before or run at the
\* same time (hit, first compile, compile again after eviction, other scans
\* of the same pattern), a finished call has the result the function has on
\* a fresh process; the trees in the cache are those of their keys and no
\* scan step changes them.
C10_ArgumentsOnly ==
    /\ [](CacheSound /\ \A t \in Threads : pc[t] = "done" => result[t] = Alone(t))
    /\ [][OtherStep /\ TreesKept]_vars

\* a call has finished with a match while another caller scans the same
\* pattern, after more patterns than the cache holds have been compiled
C10_Witness ==
    \E t \in Threads, u \in Threads :
        /\ t # u
        /\ pc[t] = "done"
        /\ result[t].kind = "matches"
        /\ result[t].matches # <<>>
        /\ pattern[u] = pattern[t]
        /\ pc[u] \in {"find_matches", "match_pattern"}
        /\ tested[u] # <<>>
        /\ Len(recent) > maxsize

RECURSIVE SubNodes(_)
RECURSIVE ReachedBy(_, _, _, _)
RECURSIVE FixedPointPasses(_, _, _, _)

\* the nodes of a matcher tree
SubNodes(node) ==
    {node} \cup
    CASE node.type = "SequenceMatcher" ->
             UNION {SubNodes(node.matchers[k]) : k \in 1..Len(node.matchers)}
      [] node.type = "AlternationMatcher" ->
             SubNodes(node.left) \cup SubNodes(node.right)
      [] node.type \in {"OptionalMatcher", "PlusMatcher", "StarMatcher",
                        "CaptureGroupMatcher"} -> SubNodes(node.matcher)
      [] node.type = "Quantified" -> SubNodes(node.node)
      [] OTHER -> {}

\* the entry states a node is tried from: every offset of the line, group 1
\* unset, empty, or holding a prefix of the line
EntryStates(l) ==
    {MatchState(o, g) :
        o \in 0..Len(l),
        g \in {{}} \cup {{<<1, Slice(l, 0, b)>>} : b \in 0..min(Len(l), 2)}}

\* one application of node to every state of S
Apply(node, l, S) == StatesOf(MatchAll(node, l, S))

\* the states reached from S by one to k applications, A being Apply of S
ReachedNext(node, l, A, k) == A \cup ReachedBy(node, l, A, k - 1)

ReachedBy(node, l, S, k) ==
    IF k = 0 \/ S = {} THEN {} ELSE ReachedNext(node, l, Apply(node, l, S), k)

\* more applications than a chain of distinct states over l can have
ChainBound(l) == 2 * (Len(l) + 1) + 2

\* the passes of the while loop of Plus / Star after one pass
PassesNext(node, l, all_states, next_results) ==
    IF next_results.raised \/ next_results.states \ all_states = {} THEN 1
    ELSE 1 + FixedPointPasses(node, l, next_results.states \ all_states,
                              all_states \cup next_results.states)

\* the number of passes the while loop of Plus / Star makes
FixedPointPasses(node, l, frontier, all_states) ==
    IF frontier = {} THEN 0
    ELSE PassesNext(node, l, all_states, MatchAll(node, l, frontier))

\* Star from s: ends, holds s and exactly what applications reach from s
StarIsClosure(node, l, s, r) ==
    /\ ~r.raised
    /\ s \in r.states
    /\ r.states = {s} \cup ReachedBy(node, l, {s}, ChainBound(l))
    /\ FixedPointPasses(node, l, {s}, {s}) <= Cardinality(r.states)

\* Plus from s: ends and holds exactly what one or more applications reach
PlusIsClosure(node, l, s, r) ==
    /\ ~r.raised
    /\ r.states = ReachedBy(node, l, {s}, ChainBound(l))
    /\ FixedPointPasses(node, l, Apply(node, l, {s}), Apply(node, l, {s}))
           <= Cardinality(r.states)

\* the Plus / Star nodes of the tree of t, from every entry state
LoopsAreClosures(t) ==
    \A node \in SubNodes(matcher[t]) :
        /\ node.type = "StarMatcher" =>
               \A s \in EntryStates(line[t]) :
                   StarIsClosure(node.matcher, line[t], s,
                                 Match(node, line[t], s))
        /\ node.type = "PlusMatcher" =>
               \A s \in EntryStates(line[t]) :
                   PlusIsClosure(node.matcher, line[t], s,
                                 Match(node, line[t], s))

\* a tree in which no brace quantifier raises
NeverRaises(t) ==
    \A o \in 0..Len(line[t]) : ~Match(matcher[t], line[t], Fresh(o)).raised

\* C11: the fixed-point loops of PlusMatcher.match and StarMatcher.match
\* end for every wrapped matcher, line and entry state, wrapped matchers
\* that succeed without advancing included ((a?)*, (^)+, (a*)*); Star's
\* result holds the entry state, Plus's result is exactly the set of states
\* reached by one or more applications.
C11_LoopsTerminate ==
    \A t \in Threads : (Scanned(t) /\ NeverRaises(t)) => LoopsAreClosures(t)

C11_Witness ==
    \E t \in Threads :
        /\ FindFinished(t)
        /\ pattern[t] = P_star_star
        /\ line[t] = L_aab
        /\ matcher[t].type = "StarMatcher"
        /\ Match(matcher[t], line[t], Fresh(2)).states =
               {Fresh(2), MatchState(2, {<<1, <<>>>>})}
        /\ FixedPointPasses(matcher[t].matcher, line[t],
                            {Fresh(2)}, {Fresh(2)}) = 2
        /\ result[t].matches = << <<"a", "a">>, <<>> >>

LeafTypes ==
    {"LiteralMatcher", "DigitMatcher", "WordMatcher", "AnyMatcher",
     "CharClassMatcher"}

AnchorTypes == {"AnchorStartMatcher", "AnchorEndMatcher"}

\* q is s moved forward by n, groups untouched
Advanced(s, q, n) == q.pos = s.pos + n /\ q.groups = s.groups

\* the result states of node from s lie between s and the end of l, at the
\* distance the kind of node prescribes
PositionsOK(node, l, s, states) ==
    \A q \in states :
        /\ s.pos <= q.pos
        /\ q.pos <= Len(l)
        /\ node.type \in LeafTypes => Advanced(s, q, 1)
        /\ node.type \in AnchorTypes => Advanced(s, q, 0)
        /\ node.type = "BackreferenceMatcher" =>
               /\ HasGroup(s.groups, node.gid)
               /\ Advanced(s, q, Len(GroupText(s.groups, node.gid)))
               /\ Slice(l, s.pos, q.pos) = GroupText(s.groups, node.gid)

PositionInvariant(t) ==
    \A node \in SubNodes(matcher[t]) :
        \A s \in EntryStates(line[t]) :
            PositionsOK(node, line[t], s, Match(node, line[t], s).states)

\* C12: for every matcher node of a compiled tree, every line and every
\* entry state within the line, every result state of match() lies between
\* the entry position and the end of the line; a leaf matcher advances by
\* exactly 1, an anchor by 0, a backreference by exactly the length of the
\* captured text and never past the end of the line.
C12_PositionInvariant == \A t \in Threads : Scanned(t) => PositionInvariant(t)

C12_Witness ==
    \E t \in Threads :
        /\ FindFinished(t)
        /\ pattern[t] = P_ab_ref
        /\ line[t] = L_abab
        /\ BackreferenceMatcher(1) \in SubNodes(matcher[t])
        /\ LiteralMatcher("a") \in SubNodes(matcher[t])
        /\ Match(BackreferenceMatcher(1), line[t],
                 MatchState(2, {<<1, <<"a", "b">>>>})).states
               = {MatchState(4, {<<1, <<"a", "b">>>>})}
        /\ Match(BackreferenceMatcher(1), line[t],
                 MatchState(3, {<<1, <<"a", "b">>>>})).states = {}
        /\ Match(LiteralMatcher("a"), line[t], Fresh(4)).states = {}
        /\ result[t].matches = << <<"a", "b", "a", "b">> >>

RECURSIVE PathEnds(_, _, _, _)

\* the end states of the paths through matchers[k..], each path followed
\* on its own from its own state
PathEnds(matchers, k, l, s) ==
    IF k > Len(matchers) THEN {s}
    ELSE UNION {PathEnds(matchers, k + 1, l, q) :
                    q \in Match(matchers[k], l, s).states}

\* what a capture of gid makes of the wrapped matcher's results from s
Captured(gid, l, s, results) ==
    {MatchState(r.pos, SetGroup(r.groups, gid, Slice(l, s.pos, r.pos))) :
         r \in results}

\* every state of a path is in the result of node from s, with the groups
\* of that path
PathsKept(node, l, s, states) ==
    /\ node.type = "SequenceMatcher" =>
           states = PathEnds(node.matchers, 1, l, s)
    /\ node.type = "AlternationMatcher" =>
           states = Match(node.left, l, s).states
                        \cup Match(node.right, l, s).states
    /\ node.type = "OptionalMatcher" =>
           states = {s} \cup Match(node.matcher, l, s).states
    /\ node.type = "CaptureGroupMatcher" =>
           /\ states = Captured(node.gid, l, s, Match(node.matcher, l, s).states)
           /\ \A q \in states :
                  \A item \in q.groups \ s.groups :
                      \/ item[1] = node.gid
                      \/ \E r \in Match(node.matcher, l, s).states :
                             r.pos = q.pos /\ item \in r.groups
    /\ node.type \in {"PlusMatcher", "StarMatcher"} =>
           \A q \in states :
               Match(node.matcher, l, q).states \subseteq states

NoMerging(t) ==
    \A node \in SubNodes(matcher[t]) :
        \A s \in EntryStates(line[t]) :
            PathsKept(node, line[t], s, Match(node, line[t], s).states)

\* (a|ab)(bc|c)\1 on abcab: two paths stand at 3 with different captures,
\* and the backreference takes one to 4 and the other to 5
TwoPaths(t) ==
    /\ PathEnds(SubSeq(matcher[t].matchers, 1, 2), 1, line[t], Fresh(0)) =
           {MatchState(3, {<<1, <<"a">>>>, <<2, <<"b", "c">>>>}),
            MatchState(3, {<<1, <<"a", "b">>>>, <<2, <<"c">>>>})}
    /\ Match(matcher[t], line[t], Fresh(0)).states =
           {MatchState(4, {<<1, <<"a">>>>, <<2, <<"b", "c">>>>}),
            MatchState(5, {<<1, <<"a", "b">>>>, <<2, <<"c">>>>})}

\* C13: two matching paths that reach the same position with different
\* captured groups stay two states in every result set (Sequence,
\* Alternation, Optional, Plus, Star drop and merge none), a capture writes
\* only its own group on its own path, and a later backreference is
\* evaluated once per path: (a|ab)(bc|c)\1 on abcab reaches both 4 and 5.
C13_NoMerging ==
    \A t \in Threads :
        (Scanned(t) /\ NeverRaises(t)) =>
            /\ NoMerging(t)
            /\ (pattern[t] = P_two_groups_ref /\ line[t] = L_abcab)
                   => TwoPaths(t)

C13_Witness ==
    \E t \in Threads :
        /\ FindFinished(t)
        /\ pattern[t] = P_two_groups_ref
        /\ line[t] = L_abcab
        /\ EndsOf(Match(matcher[t], line[t], Fresh(0))) = {4, 5}
        /\ Cardinality(PathEnds(SubSeq(matcher[t].matchers, 1, 2), 1,
                                line[t], Fresh(0))) = 2
        /\ result[t].matches = << <<"a", "b", "c", "a", "b">> >>

RECURSIVE AfterK(_, _, _, _)

\* the states reached from S by exactly k applications of node
AfterK(node, l, S, k) ==
    IF k = 0 \/ S = {} THEN S ELSE AfterK(node, l, Apply(node, l, S), k - 1)

\* the repetition counts a brace quantifier with bounds b allows on l
Counts(b, l) ==
    IF b.unbounded THEN b.n..(b.n + ChainBound(l)) ELSE b.n..b.m

\* the result of a brace quantifier over node is what k applications reach,
\* for the counts k its bounds allow
BraceIsCounted(node, b, l, s, states) ==
    /\ states = UNION {AfterK(node, l, {s}, k) : k \in Counts(b, l)}
    /\ AfterK(node, l, {s}, b.n) = {} => states = {}
    /\ (b.n = 0 /\ (b.unbounded \/ b.m >= 0)) => s \in states

IsBrace(node) ==
    /\ node.type = "Quantified"
    /\ Len(node.kind) >= 2
    /\ node.kind[1] = "{"
    /\ ~Bounds(node.kind).raised

BracesCounted(t) ==
    \A node \in SubNodes(matcher[t]) :
        IsBrace(node) =>
            \A s \in EntryStates(line[t]) :
                BraceIsCounted(node.node, Bounds(node.kind), line[t], s,
                               Match(node, line[t], s).states)

\* C14: the result of a brace quantifier from an entry state is exactly the
\* set of states reached by k successive applications of its node, k = n
\* for {n}, k >= n for {n,}, n <= k <= m for {n,m}; it is empty when fewer
\* than n applications are possible, and {0} / {0,m} hold the entry state.
C14_BraceCounts ==
    \A t \in Threads : (Scanned(t) /\ NeverRaises(t)) => BracesCounted(t)

\* find_matches returned a non-empty list
Found(r) == r.kind = "matches" /\ r.matches # <<>>

\* match_pattern returned True
Matched(r) == r.kind = "bool" /\ r.bool

\* the finished call of t and the other scan operation on the same
\* arguments give the same answer to "does the pattern occur in the line"
ScansAgree(t) ==
    /\ (op[t] = "find_matches" /\ result[t].kind = "matches") =>
           (Found(result[t]) <=> Matched(match_pattern(line[t], pattern[t])))
    /\ (op[t] = "match_pattern" /\ result[t].kind = "bool") =>
           (Matched(result[t]) <=> Found(find_matches(line[t], pattern[t])))

\* C15: for every line and every pattern that compiles,
\* match_pattern(line, pattern) is True if and only if
\* find_matches(line, pattern) is a non-empty list, patterns with a leading
\* ^ and an unanchored alternative (^x|b) and zero-width patterns on the
\* empty line (^) included.
C15_ScansAgree == \A t \in Threads : Scanned(t) => ScansAgree(t)

=============================================================================
